---- MODULE Spec2Model ----
(***************************************************************************)
(* waybar-mpris: the player registry (PlayerList of main.go, Mpris2 of     *)
(* mpris2client/mpris2.go), the handlers of the primary process that act   *)
(* on it (bus notifications, control commands), the output writer, the     *)
(* startup sequence of a further invocation next to a running primary, the *)
(* listener goroutine with its peers, the goroutines of main() side by     *)
(* side, and Player.Refresh with the outcomes of its two fetches.          *)
(*                                                                         *)
(* A bus name is modelled by a number: 1..NumNames are the names           *)
(* org.mpris.MediaPlayer2.<n> of media players, PLAYERCTLD is              *)
(* org.mpris.MediaPlayer2.playerctld and OTHERNAME is a name outside the   *)
(* media-player namespace.  Positions in the player sequence are 0-based   *)
(* as in the code: At(ls, k) is ls[k] of the Go slice.                     *)
(***************************************************************************)
EXTENDS Integers, Sequences, FiniteSets, TLC

\* ------------------------------------------------------------- bounds ----
MaxPlayers == 3      \* longest player sequence New() builds in Spec
NumNames == 2        \* number of distinct media-player bus names
SortLen == 7         \* longest player sequence handed to Sort() in SpecSort
MaxDrift == 1        \* how far an out-of-range selection index is followed
MaxFetched == 2      \* longest player sequence in SpecRefresh

\* -------------------------------------------------- program constants ----
\* modulus of the type uint of PlayerList.current / Mpris2.Current.  The
\* build has 2^64 (2^32 on 32-bit targets); TLC's integers end at
\* 2^31, so the modulus is scaled to 2^30.  The code only compares the index
\* with len(list) and steps it by one, which comes out the same for every
\* modulus above MaxPlayers + MaxDrift.
UintModulus == 1073741824

PLAYERCTLD == 0
OTHERNAME == -1
\* a name that holds org.mpris.MediaPlayer2 behind another prefix, such as
\* com.example.org.mpris.MediaPlayer2.demo
EMBEDDED == 99

PlayerNames == 1 .. NumNames
BusNames == PlayerNames \cup {PLAYERCTLD, OTHERNAME, EMBEDDED}

VARIABLES
    impl,          \* "main" (main.go PlayerList) or "client" (mpris2client Mpris2)
    flagAutofocus, \* --autofocus flag / autofocus argument of NewMpris2
    autofocus,     \* AUTOFOCUS of main.go / field Mpris2.autofocus
    phase,         \* "new", "running", "crashed" (unrecovered panic)
    list,          \* PlayerList.list / Mpris2.List
    current,       \* PlayerList.current / Mpris2.Current (uint)
    lastLine,      \* lastLine of main()
    WRITER,        \* the sinks behind WRITER: <<"stdout">> or a MultiWriter
    outfile,       \* OUTFILE: "absent", "empty" (created/truncated), "data",
                   \* "denied" (os.Create fails for this user)
    events,        \* what the last handler wrote: lines to sinks, Messages
    reply,         \* what the last control command wrote back to its peer
    handled,       \* the last handler and its locals (name, pid, i, current)
    sock,          \* SOCK: "absent", "stale" (file without listener),
                   \* "primary" (the running primary listens), "inst"
    inst,          \* a further invocation of main(): its flags, its position
                   \* and what it has done so far
    listener,      \* the listener goroutine of the primary: where it stands
                   \* in its loop, and the locals it holds there
    poll           \* the poll goroutine (--position): "off", "sleep",
                   \* "checked" (len(players.list) != 0 was found true)

vars == <<impl, flagAutofocus, autofocus, phase, list, current, lastLine,
          WRITER, outfile, events, reply, handled, sock, inst, listener, poll>>

\* ------------------------------------------------------------ helpers ----
uint(x) == x % UintModulus

At(ls, k) == ls[k + 1]

Range(s) == {s[k] : k \in 1 .. Len(s)}

NamesOf(ls) == [k \in 1 .. Len(ls) |-> ls[k].fullName]

\* GetConnectionUnixProcessID of a name that has an owner
PidOf(name) == 10 * name

\* strings.HasPrefix(name, INTERFACE)
HasPrefixInterface(name) == name \in PlayerNames \cup {PLAYERCTLD}

\* strings.Contains(name, INTERFACE)
ContainsInterface(name) == name \in PlayerNames \cup {PLAYERCTLD, EMBEDDED}

\* strings.Contains(name, "playerctld")
ContainsPlayerctld(name) == name = PLAYERCTLD

\* the signal loop:
\* strings.Contains(name, INTERFACE) && !strings.Contains(name, "playerctld")
IsPlayerName(name) == ContainsInterface(name) /\ ~ContainsPlayerctld(name)

\* Reload:
\* strings.HasPrefix(name, INTERFACE) && !strings.Contains(name, "playerctld")
IsListedPlayer(name) == HasPrefixInterface(name) /\ ~ContainsPlayerctld(name)

NoReply == [kind |-> "none", text |-> <<>>, lines |-> <<>>]

Handled(op, name, pid, i, cur, n) ==
    [op |-> op, name |-> name, pid |-> pid, i |-> i, cur |-> cur]

\* the listener goroutine in listener.Accept(), no local in use
Accepting == [pc |-> "accept", length |-> 0]

\* ------------------------------------------------------------- Player ----
NewPlayer(name, playing) ==
    [fullName |-> name, pid |-> PidOf(name), playing |-> playing]

\* Player.JSON: the line depends on the playing flag (class, symbol) and on
\* the player (name in the tooltip)
PlayerJSON(p) ==
    [class |-> IF p.playing THEN "playing" ELSE "paused", name |-> p.fullName]

EmptyJSON == [class |-> "empty", name |-> 0]

NoLine == [class |-> "", name |-> 0]

\* the list command / Mpris2.String: pad is the number of decimal digits of
\* len(list), "%0<pad>d" writes i with at least pad digits
RECURSIVE Pad(_)
Pad(i) == IF i # 0 THEN 1 + Pad(i \div 10) ELSE 0

RECURSIVE Digits(_)
Digits(i) == IF i < 10 THEN <<i>> ELSE Append(Digits(i \div 10), i % 10)

ZeroPadded(i, pad) ==
    LET d == Digits(i)
    IN [k \in 1 .. (IF pad > Len(d) THEN pad - Len(d) ELSE 0) |-> 0] \o d

ListLine(i, p, cur, pad) ==
    [index |-> ZeroPadded(i, pad), star |-> (uint(i) = cur),
     name |-> p.fullName, playing |-> p.playing, pid |-> p.pid]

String(ls, cur) ==
    [k \in 1 .. Len(ls) |-> ListLine(k - 1, ls[k], cur, Pad(Len(ls)))]

\* --------------------------------------------------------------- List ----
Less(p, q) == p.playing /\ ~q.playing

Swap(ls, i, j) == [ls EXCEPT ![i + 1] = ls[j + 1], ![j + 1] = ls[i + 1]]

\* sort.Sort of the go 1.15 toolchain (go.mod) on at most 12 elements: one
\* ShellSort pass with gap 6, then insertion sort
RECURSIVE shellPass(_, _)
shellPass(ls, i) ==
    IF i >= Len(ls) THEN ls
    ELSE shellPass(IF Less(At(ls, i), At(ls, i - 6)) THEN Swap(ls, i, i - 6) ELSE ls,
                   i + 1)

RECURSIVE insertInner_StopAtOne(_, _)
insertInner_StopAtOne(ls, j) ==
    IF j > 1 /\ Less(At(ls, j), At(ls, j - 1))
    THEN insertInner_StopAtOne(Swap(ls, j, j - 1), j - 1)
    ELSE ls

RECURSIVE insertInner(_, _)
insertInner(ls, j) ==
    IF j > 0 /\ Less(At(ls, j), At(ls, j - 1))
    THEN insertInner(Swap(ls, j, j - 1), j - 1)
    ELSE ls

RECURSIVE insertionSort(_, _)
insertionSort(ls, i) ==
    IF i >= Len(ls) THEN ls ELSE insertionSort(insertInner(ls, i), i + 1)

sortSort(ls) ==
    IF Len(ls) > 1 THEN insertionSort(shellPass(ls, 6), 1) ELSE ls

\* --------------------------------------------------------- PlayerList ----
\* position of the first player called name, -1 when there is none
IndexOf(ls, name) ==
    IF \E k \in 1 .. Len(ls) : ls[k].fullName = name
    THEN (CHOOSE k \in 1 .. Len(ls) :
            /\ ls[k].fullName = name
            /\ \A m \in 1 .. k - 1 : ls[m].fullName # name) - 1
    ELSE -1

\* pl.list[pl.current] panics (index out of range)
IndexPanics(ls, cur) == cur >= Len(ls)

\* PlayerList.Remove / Mpris2.Remove after currentName was read:
\* swap the match with the head, drop the head, look currentName up again
Remove_KeepIndex(ls, cur, name) ==
    LET currentName == At(ls, cur).fullName
        i == IndexOf(ls, name)
        rest == Tail(Swap(ls, 0, i))
        ind == IndexOf(rest, currentName)
    IN IF i = -1
       THEN [list |-> ls, current |-> cur, i |-> i, reset |-> FALSE]
       ELSE IF ind # -1
            THEN [list |-> rest, current |-> cur, i |-> i, reset |-> FALSE]
            ELSE [list |-> rest, current |-> 0, i |-> i, reset |-> TRUE]

Remove(ls, cur, name) ==
    LET currentName == At(ls, cur).fullName
        i == IndexOf(ls, name)
        rest == Tail(Swap(ls, 0, i))
        ind == IndexOf(rest, currentName)
    IN IF i = -1
       THEN [list |-> ls, current |-> cur, i |-> i, reset |-> FALSE]
       ELSE IF ind # -1
            THEN [list |-> rest, current |-> uint(ind), i |-> i, reset |-> FALSE]
            ELSE [list |-> rest, current |-> 0, i |-> i, reset |-> TRUE]

\* PlayerList.New / Mpris2.New
New_OffByOne(ls, cur, af, name, playing) ==
    LET grown == Append(ls, NewPlayer(name, playing))
    IN [list |-> grown, current |-> IF af THEN uint(Len(grown)) ELSE cur]

New(ls, cur, af, name, playing) ==
    LET grown == Append(ls, NewPlayer(name, playing))
    IN [list |-> grown, current |-> IF af THEN uint(Len(grown) - 1) ELSE cur]

\* PlayerList.Sort / Mpris2.Sort
Sort(ls, cur) == [list |-> sortSort(ls), current |-> 0]

\* PlayerList.Refresh: every player fetches its playback status again;
\* f[k] is what player k finds (a failed fetch leaves playing = false)
Refresh(ls, f) == [k \in 1 .. Len(ls) |-> [ls[k] EXCEPT !.playing = f[k]]]

Fetches(ls) == [1 .. Len(ls) -> BOOLEAN]

\* PlayerList.JSON
JSON(ls, cur) == IF Len(ls) # 0 THEN PlayerJSON(At(ls, cur)) ELSE EmptyJSON

JSONPanics(ls, cur) == Len(ls) # 0 /\ IndexPanics(ls, cur)

\* PlayerList.Reload: New for every listed name that passes the filter
RECURSIVE Reload(_, _, _, _, _)
Reload(ls, cur, af, names, flags) ==
    IF names = <<>> THEN [list |-> ls, current |-> cur]
    ELSE LET r == IF IsListedPlayer(Head(names))
                  THEN New(ls, cur, af, Head(names), Head(flags))
                  ELSE [list |-> ls, current |-> cur]
         IN Reload(r.list, r.current, af, Tail(names), Tail(flags))

\* NewMpris2: the autofocus argument is not stored
NewMpris2(af) == [List |-> <<>>, Current |-> 0, autofocus |-> FALSE]

\* ------------------------------------------------------------- output ----
\* fmt.Fprintln(WRITER, line): one line, copied to every sink of WRITER
Fprintln(w, line) == [sinks |-> w, line |-> line]

\* pl.Messages <- Message{Name: kind, Value: name}
Message(kind, name) == [sinks |-> <<"Messages">>, line |-> [class |-> kind, name |-> name]]

WriteFile(w, f) == IF \E k \in 1 .. Len(w) : w[k] = "outfile" THEN "data" ELSE f

Panic(h) ==
    /\ phase' = "crashed"
    /\ events' = <<>>
    /\ reply' = NoReply
    /\ handled' = h
    /\ UNCHANGED <<listener, poll, inst, sock, impl, flagAutofocus, autofocus, list, current, lastLine, WRITER, outfile>>

\* ------------------------------------------------------------ startup ----
\* ListNames returns every owned name once
Listings ==
    {s \in UNION {[1 .. n -> BusNames] : n \in 0 .. MaxPlayers} :
        \A a, b \in 1 .. Len(s) : a # b => s[a] # s[b]}

InitConfig ==
    /\ impl \in {"main", "client"}
    /\ flagAutofocus \in BOOLEAN
    /\ autofocus = IF impl = "main" THEN flagAutofocus ELSE NewMpris2(flagAutofocus).autofocus
    /\ list = <<>>
    /\ current = 0
    /\ lastLine = NoLine
    /\ WRITER = <<"stdout">>
    /\ events = <<>>
    /\ reply = NoReply
    /\ handled = Handled("none", 0, 0, -1, 0, 0)
    /\ listener = Accepting

\* no further invocation is started
NoInst ==
    [pc |-> "none", command |-> "", replace |-> FALSE, bus |-> FALSE,
     registry |-> FALSE, matches |-> FALSE, bound |-> FALSE, stdout |-> {},
     response |-> <<>>]

Init ==
    /\ InitConfig /\ phase = "new" /\ outfile = "absent"
    /\ sock = "primary" /\ inst = NoInst /\ poll = "off"

\* main(): players.Reload(); players.Sort(); players.Refresh();
\* fmt.Fprintln(WRITER, players.JSON())
Startup ==
    /\ phase = "new" /\ impl = "main"
    /\ \E names \in Listings :
       \E f1 \in [1 .. Len(names) -> BOOLEAN], f2 \in [1 .. Len(names) -> BOOLEAN] :
          LET r == Reload(list, current, autofocus, names, f1)
              s == Sort(r.list, r.current)
              ls == Refresh(s.list, f2)
          IN /\ list' = ls
             /\ current' = s.current
             /\ events' = <<Fprintln(WRITER, JSON(ls, s.current))>>
             /\ outfile' = WriteFile(WRITER, outfile)
             /\ handled' = Handled("startup", 0, 0, -1, 0, 0)
    /\ phase' = "running"
    /\ reply' = NoReply
    /\ UNCHANGED <<listener, poll, inst, sock, impl, flagAutofocus, autofocus, lastLine, WRITER>>

\* Mpris2.Reload, called by the user of the package before Listen
ClientReload ==
    /\ phase = "new" /\ impl = "client"
    /\ \E names \in Listings :
       \E f1 \in [1 .. Len(names) -> BOOLEAN] :
          LET r == Reload(list, current, autofocus, names, f1)
          IN /\ list' = r.list
             /\ current' = r.current
             /\ handled' = Handled("reload", 0, 0, -1, 0, 0)
    /\ phase' = "running"
    /\ events' = <<>>
    /\ reply' = NoReply
    /\ UNCHANGED <<listener, poll, inst, sock, impl, flagAutofocus, autofocus, lastLine, WRITER, outfile>>

\* ------------------------------------------- bus notification handlers ----
\* NameOwnerChanged for a name outside the namespace, or for playerctld
NameOwnerIgnored ==
    /\ phase = "running"
    /\ \E name \in BusNames :
          /\ ~IsPlayerName(name)
          /\ handled' = Handled("noc-ignored", name, 0, -1, 0, 0)
    /\ events' = <<>>
    /\ reply' = NoReply
    /\ UNCHANGED <<listener, poll, inst, sock, impl, flagAutofocus, autofocus, phase, list, current, lastLine,
                   WRITER, outfile>>

\* NameOwnerChanged(name), pid != 0: players.New(name)
OwnerGained(name) ==
    /\ Len(list) < MaxPlayers
    /\ \E playing \in BOOLEAN :
          LET r == New(list, current, autofocus, name, playing)
          IN /\ IsPlayerName(name)
             /\ list' = r.list
             /\ current' = r.current
             /\ events' = IF impl = "client" THEN <<Message("add", name)>> ELSE <<>>
             /\ handled' = Handled("new", name, PidOf(name), -1, 0, 0)
    /\ reply' = NoReply
    /\ UNCHANGED <<listener, poll, inst, sock, impl, flagAutofocus, autofocus, phase, lastLine, WRITER, outfile>>

\* NameOwnerChanged for a media player's name, pid != 0
NameOwnerNew ==
    /\ phase = "running"
    /\ \E name \in PlayerNames : OwnerGained(name)

\* NameOwnerChanged(name), pid == 0: players.Remove(name)
OwnerLost(name) ==
    /\ IsPlayerName(name)
    /\ IF IndexPanics(list, current)
       THEN Panic(Handled("remove", name, 0, -1, current, 0))
       ELSE LET r == Remove(list, current, name)
            IN \E f \in Fetches(r.list) :
                 LET ls == IF r.reset THEN Refresh(r.list, f) ELSE r.list
                     out == IF ~r.reset THEN <<>>
                            ELSE IF impl = "main"
                                 THEN <<Fprintln(WRITER, JSON(ls, r.current))>>
                                 ELSE <<Message("refresh", 0)>>
                 IN /\ list' = ls
                    /\ current' = r.current
                    /\ events' = IF impl = "client"
                                 THEN Append(out, Message("remove", name))
                                 ELSE out
                    /\ outfile' = IF impl = "main" /\ r.reset
                                  THEN WriteFile(WRITER, outfile) ELSE outfile
                    /\ handled' = Handled("remove", name, 0, r.i, current, 0)
                    /\ reply' = NoReply
                    /\ UNCHANGED <<listener, poll, inst, sock, impl, flagAutofocus, autofocus, phase, lastLine, WRITER>>

\* NameOwnerChanged for a media player's name, pid == 0
NameOwnerRemove ==
    /\ phase = "running"
    /\ \E name \in PlayerNames : OwnerLost(name)

\* NameOwnerChanged for a name that holds INTERFACE behind another prefix
NameOwnerEmbedded ==
    /\ phase = "running"
    /\ \E pid \in {0, PidOf(EMBEDDED)} :
          IF pid = 0 THEN OwnerLost(EMBEDDED) ELSE OwnerGained(EMBEDDED)

\* PropertiesChanged of a player: Refresh, Sort under autofocus, and in
\* main.go the line when it differs from lastLine
PropertiesChanged ==
    /\ phase = "running"
    /\ \E f \in Fetches(list) :
          LET ls == Refresh(list, f)
              s == IF impl = "main" /\ autofocus THEN Sort(ls, current)
                   ELSE [list |-> ls, current |-> current]
          IN IF impl = "main" /\ JSONPanics(s.list, s.current)
             THEN Panic(Handled("refresh", 0, 0, -1, 0, 0))
             ELSE LET l == JSON(s.list, s.current)
                  IN /\ list' = s.list
                     /\ current' = s.current
                     /\ IF impl = "client"
                        THEN /\ events' = <<Message("refresh", 0)>>
                             /\ UNCHANGED <<lastLine, outfile>>
                        ELSE IF l # lastLine
                             THEN /\ lastLine' = l
                                  /\ events' = <<Fprintln(WRITER, l)>>
                                  /\ outfile' = WriteFile(WRITER, outfile)
                             ELSE /\ events' = <<>>
                                  /\ UNCHANGED <<lastLine, outfile>>
                     /\ handled' = Handled("refresh", 0, 0, -1, 0, 0)
                     /\ reply' = NoReply
                     /\ UNCHANGED <<listener, poll, inst, sock, impl, flagAutofocus, autofocus, phase, WRITER>>

\* Mpris2.Sort, called by the user of the package
SortCall ==
    /\ phase = "running"
    /\ LET s == Sort(list, current)
       IN /\ list' = s.list
          /\ current' = s.current
    /\ handled' = Handled("sort", 0, 0, -1, 0, 0)
    /\ events' = <<>>
    /\ reply' = NoReply
    /\ UNCHANGED <<listener, poll, inst, sock, impl, flagAutofocus, autofocus, phase, lastLine, WRITER, outfile>>

ClientSort == impl = "client" /\ SortCall

\* Mpris2.String, called by the user of the package
ClientString ==
    /\ phase = "running" /\ impl = "client"
    /\ reply' = [kind |-> "list", text |-> <<>>, lines |-> String(list, current)]
    /\ handled' = Handled("list", 0, 0, -1, 0, 0)
    /\ events' = <<>>
    /\ UNCHANGED <<listener, poll, inst, sock, impl, flagAutofocus, autofocus, phase, list, current, lastLine,
                   WRITER, outfile>>

\* ---------------------------------------------------- control commands ----
\* on an empty registry the selection index is followed at most MaxDrift
\* steps away from 0, upward or downward through the wrap
Followed(c) == c <= MaxDrift \/ c >= UintModulus - MaxDrift

\* player-next: if players.current < uint(length-1) { += 1 } else { = 0 }
NextIndex_NoWrap(cur, length) ==
    IF cur <= uint(length - 1) THEN uint(cur + 1) ELSE 0

NextIndex(cur, length) ==
    IF cur < uint(length - 1) THEN uint(cur + 1) ELSE 0

\* player-prev: if players.current != 0 { -= 1 } else { = uint(length - 1) }
PrevIndex(cur, length) ==
    IF cur # 0 THEN uint(cur - 1) ELSE uint(length - 1)

\* case "player-next"
CmdPlayerNext ==
    /\ phase = "running" /\ impl = "main" /\ listener.pc = "accept"
    /\ LET length == Len(list)
           c == NextIndex(current, length)
       IN IF length # 1
          THEN /\ length = 0 => Followed(c)
               /\ \E f \in Fetches(list) :
                    LET ls == Refresh(list, f)
                    IN IF JSONPanics(ls, c)
                       THEN Panic(Handled("player-next", 0, 0, -1, current, 0))
                       ELSE /\ list' = ls
                            /\ current' = c
                            /\ events' = <<Fprintln(WRITER, JSON(ls, c))>>
                            /\ outfile' = WriteFile(WRITER, outfile)
                            /\ handled' = Handled("player-next", 0, 0, -1, current, 0)
                            /\ reply' = NoReply
                            /\ UNCHANGED <<listener, poll, inst, sock, impl, flagAutofocus, autofocus, phase, lastLine, WRITER>>
          ELSE /\ handled' = Handled("player-next", 0, 0, -1, current, 0)
               /\ events' = <<>>
               /\ reply' = NoReply
               /\ UNCHANGED <<listener, poll, inst, sock, impl, flagAutofocus, autofocus, phase, list, current,
                              lastLine, WRITER, outfile>>

\* case "player-prev"
CmdPlayerPrev ==
    /\ phase = "running" /\ impl = "main" /\ listener.pc = "accept"
    /\ LET length == Len(list)
           c == PrevIndex(current, length)
       IN IF length # 1
          THEN /\ length = 0 => Followed(c)
               /\ \E f \in Fetches(list) :
                    LET ls == Refresh(list, f)
                    IN IF JSONPanics(ls, c)
                       THEN Panic(Handled("player-prev", 0, 0, -1, current, 0))
                       ELSE /\ list' = ls
                            /\ current' = c
                            /\ events' = <<Fprintln(WRITER, JSON(ls, c))>>
                            /\ outfile' = WriteFile(WRITER, outfile)
                            /\ handled' = Handled("player-prev", 0, 0, -1, current, 0)
                            /\ reply' = NoReply
                            /\ UNCHANGED <<listener, poll, inst, sock, impl, flagAutofocus, autofocus, phase, lastLine, WRITER>>
          ELSE /\ handled' = Handled("player-prev", 0, 0, -1, current, 0)
               /\ events' = <<>>
               /\ reply' = NoReply
               /\ UNCHANGED <<listener, poll, inst, sock, impl, flagAutofocus, autofocus, phase, list, current,
                              lastLine, WRITER, outfile>>

\* case "next", "prev", "toggle": PlayerList.Next / Prev / Toggle call the
\* current player over the bus
CmdTrack ==
    /\ phase = "running" /\ impl = "main" /\ listener.pc = "accept"
    /\ \E cmd \in {"next", "prev", "toggle"} :
          IF IndexPanics(list, current)
          THEN Panic(Handled(cmd, 0, 0, -1, 0, 0))
          ELSE /\ handled' = Handled(cmd, 0, 0, -1, 0, 0)
               /\ events' = <<>>
               /\ reply' = NoReply
               /\ UNCHANGED <<listener, poll, inst, sock, impl, flagAutofocus, autofocus, phase, list, current,
                              lastLine, WRITER, outfile>>

\* case "list"
CmdList ==
    /\ phase = "running" /\ impl = "main" /\ listener.pc = "accept"
    /\ reply' = [kind |-> "list", text |-> <<>>, lines |-> String(list, current)]
    /\ handled' = Handled("list", 0, 0, -1, 0, 0)
    /\ events' = <<>>
    /\ UNCHANGED <<listener, poll, inst, sock, impl, flagAutofocus, autofocus, phase, list, current, lastLine,
                   WRITER, outfile>>

\* case "share": os.Create(OUTFILE) truncates the file; when it fails the
\* peer is told so, and the nil file is installed and "success" written all
\* the same
Share(created) ==
    /\ outfile' = IF created THEN "empty" ELSE outfile
    /\ WRITER' = IF created THEN <<"stdout", "outfile">> ELSE <<"stdout", "nilfile">>
    /\ reply' = [kind |-> "share",
                 text |-> IF created THEN <<"success">> ELSE <<"Failed", "success">>,
                 lines |-> <<>>]

CmdShare ==
    /\ phase = "running" /\ impl = "main" /\ listener.pc = "accept"
    /\ Share(outfile # "denied")
    /\ handled' = Handled("share", 0, 0, -1, 0, 0)
    /\ events' = <<>>
    /\ UNCHANGED <<listener, poll, inst, sock, impl, flagAutofocus, autofocus, phase, list, current, lastLine>>

\* default: fmt.Println("Invalid command") goes to the standard output
CmdInvalid ==
    /\ phase = "running" /\ impl = "main" /\ listener.pc = "accept"
    /\ events' = <<Fprintln(<<"stdout">>, [class |-> "invalid", name |-> 0])>>
    /\ handled' = Handled("invalid", 0, 0, -1, 0, 0)
    /\ reply' = NoReply
    /\ UNCHANGED <<listener, poll, inst, sock, impl, flagAutofocus, autofocus, phase, list, current, lastLine,
                   WRITER, outfile>>

\* ------------------------------------------------------ specifications ----
Next ==
    \/ Startup
    \/ ClientReload
    \/ NameOwnerIgnored
    \/ NameOwnerNew
    \/ NameOwnerRemove
    \/ PropertiesChanged
    \/ ClientSort
    \/ ClientString
    \/ CmdPlayerNext
    \/ CmdPlayerPrev
    \/ CmdTrack
    \/ CmdList
    \/ CmdInvalid

Spec == Init /\ [][Next]_vars

\* Add and Remove alone, on a registry that starts empty
InitAddRemove ==
    /\ InitConfig /\ phase = "running" /\ outfile = "absent"
    /\ sock = "primary" /\ inst = NoInst /\ poll = "off"

NextAddRemove == NameOwnerNew \/ NameOwnerRemove

SpecAddRemove == InitAddRemove /\ [][NextAddRemove]_vars

\* the selection: the handlers that add, remove and select players
NextSelect ==
    \/ Startup
    \/ ClientReload
    \/ NameOwnerNew
    \/ NameOwnerRemove
    \/ CmdPlayerNext
    \/ CmdPlayerPrev

SpecSelect == Init /\ [][NextSelect]_vars

\* Sort as a function: every sequence of up to SortLen players, any selection
SortInputs ==
    UNION {{[k \in 1 .. n |-> NewPlayer(k, f[k])] : f \in [1 .. n -> BOOLEAN]} :
           n \in 0 .. SortLen}

InitSort ==
    /\ impl \in {"main", "client"}
    /\ flagAutofocus = FALSE
    /\ autofocus = FALSE
    /\ phase = "running"
    /\ list \in SortInputs
    /\ current \in {c \in 0 .. SortLen : c = 0 \/ c < Len(list)}
    /\ lastLine = NoLine
    /\ WRITER = <<"stdout">>
    /\ outfile = "absent"
    /\ events = <<>>
    /\ reply = NoReply
    /\ handled = Handled("none", 0, 0, -1, 0, 0)
    /\ listener = Accepting
    /\ poll = "off"
    /\ sock = "primary" /\ inst = NoInst

NextSort == SortCall

SpecSort == InitSort /\ [][NextSort]_vars

\* the writer of the primary: share next to the handlers that write lines
InitShare ==
    /\ InitConfig /\ impl = "main" /\ phase = "new"
    /\ outfile \in {"absent", "data", "denied"}
    /\ sock = "primary" /\ inst = NoInst /\ poll = "off"

NextShare ==
    \/ Startup
    \/ NameOwnerRemove
    \/ PropertiesChanged
    \/ CmdPlayerNext
    \/ CmdShare

SpecShare == InitShare /\ [][NextShare]_vars

\* ----------------------------------------------- a further invocation ----
\* main() up to the point where it serves, mirrors, has sent its command
\* or has failed.  The primary that is already running (phase = "running")
\* has an empty registry.
Commands == {"", "list", "toggle"}

PrimaryUnchanged ==
    UNCHANGED <<impl, flagAutofocus, autofocus, phase, list, current, lastLine,
                WRITER, events, reply, handled, listener, poll>>

\* --send: net.Dial, conn.Write, "Sent.", for list the response is read
SendCommand ==
    /\ inst.pc = "start" /\ inst.command # ""
    /\ IF sock \notin {"primary"}
       THEN inst' = [inst EXCEPT !.pc = "fatal"]
       ELSE inst' = [inst EXCEPT
                !.pc = IF inst.command = "list" THEN "await-response" ELSE "exited",
                !.stdout = @ \cup {"Sent."}]
    /\ UNCHANGED <<sock, outfile>>
    /\ PrimaryUnchanged

\* the primary answers list; the sender prints the response and exits
SendResponse ==
    /\ inst.pc = "await-response" /\ phase = "running"
    /\ reply' = [kind |-> "list", text |-> <<>>, lines |-> String(list, current)]
    /\ handled' = Handled("list", 0, 0, -1, 0, 0)
    /\ events' = <<>>
    /\ inst' = [inst EXCEPT !.pc = "exited", !.stdout = @ \cup {"Response:"}]
    /\ UNCHANGED <<listener, poll, impl, flagAutofocus, autofocus, phase, list, current,
                   lastLine, WRITER, outfile, sock>>

\* dbus.SessionBus(), PlayerList{}, Reload, Sort, Refresh and the first line
\* on the standard output, all before SOCK is looked at
ConnectBus ==
    /\ inst.pc = "start" /\ inst.command = ""
    /\ \E connected \in BOOLEAN :
          inst' = IF connected
                  THEN [inst EXCEPT !.pc = "probe", !.bus = TRUE, !.registry = TRUE,
                                    !.stdout = @ \cup {"own line"}]
                  ELSE [inst EXCEPT !.pc = "fatal"]
    /\ UNCHANGED <<sock, outfile>>
    /\ PrimaryUnchanged

\* os.Remove(OUTFILE): a file this user may not write stays
RemoveOutfile(f) == IF f = "denied" THEN f ELSE "absent"

\* os.Stat(SOCK) and the three branches under it
Probe ==
    /\ inst.pc = "probe"
    /\ IF sock = "absent"
       THEN /\ inst' = [inst EXCEPT !.pc = "listen"]
            /\ UNCHANGED <<sock, outfile>>
       ELSE IF inst.replace
            THEN /\ inst' = [inst EXCEPT !.pc = "replace-wait",
                                         !.stdout = @ \cup {"prompt"}]
                 /\ UNCHANGED <<sock, outfile>>
            ELSE IF sock = "primary"
                 THEN /\ inst' = [inst EXCEPT !.pc = "attach-dialed"]
                      /\ UNCHANGED <<sock, outfile>>
                 ELSE /\ inst' = [inst EXCEPT !.pc = "listen"]
                      /\ sock' = "absent"
                      /\ outfile' = RemoveOutfile(outfile)
    /\ PrimaryUnchanged

\* REPLACE: the operator has 5 seconds; only an answer with "y" inside the
\* window removes SOCK (the removal for lack of input is commented out)
ReplaceWait ==
    /\ inst.pc = "replace-wait"
    /\ \E input \in {"", "y", "n"} :
          /\ sock' = IF input = "y" THEN "absent" ELSE sock
          /\ inst' = [inst EXCEPT !.pc = "listen",
                        !.stdout = IF input = "" THEN @ \cup {"Removing"} ELSE @]
    /\ UNCHANGED outfile
    /\ PrimaryUnchanged

\* conn.Write("share"), handled by the primary
AttachShare ==
    /\ inst.pc = "attach-dialed" /\ phase = "running"
    /\ Share(outfile # "denied")
    /\ handled' = Handled("share", 0, 0, -1, 0, 0)
    /\ events' = <<>>
    /\ inst' = [inst EXCEPT !.pc = "attach-sent", !.response = reply'.text]
    /\ UNCHANGED <<listener, poll, impl, flagAutofocus, autofocus, phase, list, current,
                   lastLine, sock>>

\* conn.Read and tail.TailFile(OUTFILE, MustExist)
AttachRead ==
    /\ inst.pc = "attach-sent"
    /\ inst' = [inst EXCEPT
            !.pc = IF inst.response = <<"success">> /\ outfile \in {"empty", "data"}
                   THEN "tailing" ELSE "listen"]
    /\ UNCHANGED <<sock, outfile>>
    /\ PrimaryUnchanged

\* for line := range t.Lines { fmt.Println(line.Text) }
MirrorLine ==
    /\ inst.pc = "tailing" /\ outfile = "data"
    /\ inst' = [inst EXCEPT !.stdout = @ \cup {"mirrored line"}]
    /\ UNCHANGED <<sock, outfile>>
    /\ PrimaryUnchanged

\* the tail stops when OUTFILE is gone; main() goes on behind the if
TailEnds ==
    /\ inst.pc = "tailing" /\ outfile = "absent"
    /\ inst' = [inst EXCEPT !.pc = "listen"]
    /\ UNCHANGED <<sock, outfile>>
    /\ PrimaryUnchanged

\* the listener goroutine: net.Listen("unix", SOCK), signal.Notify and the
\* goroutine that waits for os.Interrupt; only then is err looked at, so
\* after a failed Listen the interrupt handler is armed ("fatalf") until
\* log.Fatalf has ended the process
Listen ==
    /\ inst.pc = "listen"
    /\ IF sock = "absent"
       THEN /\ sock' = "inst"
            /\ inst' = [inst EXCEPT !.pc = "serving", !.bound = TRUE]
       ELSE /\ inst' = [inst EXCEPT !.pc = "fatalf", !.bound = TRUE]
            /\ UNCHANGED sock
    /\ UNCHANGED outfile
    /\ PrimaryUnchanged

\* log.Fatalf("Couldn't establish socket connection ..."): os.Exit(1)
Fatalf ==
    /\ inst.pc = "fatalf"
    /\ inst' = [inst EXCEPT !.pc = "fatal"]
    /\ UNCHANGED <<sock, outfile>>
    /\ PrimaryUnchanged

\* os.Interrupt in the further invocation.  With the handler armed:
\* os.Remove(OUTFILE), os.Remove(SOCK), os.Exit(1); before that the Go
\* runtime ends the process and nothing is removed
InstInterrupt ==
    /\ inst.pc \notin {"none", "fatal", "exited"}
    /\ inst' = [inst EXCEPT !.pc = "exited"]
    /\ IF inst.pc \in {"serving", "fatalf"}
       THEN /\ outfile' = RemoveOutfile(outfile)
            /\ sock' = "absent"
       ELSE UNCHANGED <<sock, outfile>>
    /\ PrimaryUnchanged

\* main(): AddMatch for both signals, beside the listener goroutine
AddMatches ==
    /\ inst.pc \in {"listen", "serving"} /\ ~inst.matches
    /\ inst' = [inst EXCEPT !.matches = TRUE]
    /\ UNCHANGED <<sock, outfile>>
    /\ PrimaryUnchanged

\* os.Interrupt in the running primary: os.Remove(OUTFILE), os.Remove(SOCK),
\* os.Exit(1)
PrimaryInterrupt ==
    /\ phase = "running" /\ impl = "main"
    /\ phase' = "exited"
    /\ outfile' = RemoveOutfile(outfile)
    /\ sock' = "absent"
    /\ handled' = Handled("interrupt", 0, 0, -1, 0, 0)
    /\ events' = <<>>
    /\ reply' = NoReply
    /\ UNCHANGED <<listener, poll, inst, impl, flagAutofocus, autofocus, list, current, lastLine,
                   WRITER>>

InitCoord ==
    /\ impl = "main"
    /\ flagAutofocus = FALSE
    /\ autofocus = FALSE
    /\ phase \in {"running", "none"}
    /\ list = <<>>
    /\ current = 0
    /\ lastLine = NoLine
    /\ WRITER = <<"stdout">>
    /\ outfile \in {"absent", "data", "denied"}
    /\ events = <<>>
    /\ reply = NoReply
    /\ handled = Handled("none", 0, 0, -1, 0, 0)
    /\ listener = Accepting
    /\ poll = "off"
    /\ sock \in IF phase = "running" THEN {"primary"} ELSE {"absent", "stale"}
    /\ \E c \in Commands, r \in BOOLEAN :
          inst = [NoInst EXCEPT !.pc = "start", !.command = c, !.replace = r]

NextCoord ==
    \/ SendCommand
    \/ SendResponse
    \/ ConnectBus
    \/ Probe
    \/ ReplaceWait
    \/ AttachShare
    \/ AttachRead
    \/ MirrorLine
    \/ TailEnds
    \/ Listen
    \/ Fatalf
    \/ AddMatches
    \/ PropertiesChanged
    \/ PrimaryInterrupt
    \/ InstInterrupt

SpecCoord == InitCoord /\ [][NextCoord]_vars

\* ------------------------------------- the listener goroutine's peers ----
\* log.Println(...) of the listener goroutine goes to the standard error
LogLine == Fprintln(<<"stderr">>, [class |-> "log", name |-> 0])

\* a peer connects and hangs up without sending: con.Read returns an error,
\* log.Println("Couldn't read:", err); continue
PeerCloses ==
    /\ phase = "running" /\ impl = "main" /\ listener.pc = "accept"
    /\ handled' = Handled("peer-closed", 0, 0, -1, 0, 0)
    /\ events' = <<LogLine>>
    /\ reply' = NoReply
    /\ UNCHANGED <<listener, poll, inst, sock, impl, flagAutofocus, autofocus, phase, list,
                   current, lastLine, WRITER, outfile>>

\* a peer connects and sends nothing: listener.Accept() returns and the
\* goroutine stands in con.Read(buf), which has no deadline
PeerSilent ==
    /\ phase = "running" /\ impl = "main" /\ listener.pc = "accept"
    /\ listener' = [listener EXCEPT !.pc = "read"]
    /\ handled' = Handled("peer-silent", 0, 0, -1, 0, 0)
    /\ events' = <<>>
    /\ reply' = NoReply
    /\ UNCHANGED <<poll, inst, sock, impl, flagAutofocus, autofocus, phase, list, current,
                   lastLine, WRITER, outfile>>

\* the silent peer hangs up after all: con.Read returns io.EOF, continue
SilentPeerCloses ==
    /\ phase = "running" /\ impl = "main" /\ listener.pc = "read"
    /\ listener' = Accepting
    /\ handled' = Handled("peer-closed", 0, 0, -1, 0, 0)
    /\ events' = <<LogLine>>
    /\ reply' = NoReply
    /\ UNCHANGED <<poll, inst, sock, impl, flagAutofocus, autofocus, phase, list, current,
                   lastLine, WRITER, outfile>>

InitListener ==
    /\ InitConfig /\ impl = "main" /\ phase = "new" /\ outfile = "absent"
    /\ sock = "primary" /\ inst = NoInst /\ poll = "off"

NextListener ==
    \/ Startup
    \/ NameOwnerNew
    \/ CmdPlayerNext
    \/ CmdList
    \/ CmdInvalid
    \/ PeerCloses
    \/ PeerSilent
    \/ SilentPeerCloses

SpecListener == InitListener /\ [][NextListener]_vars

\* ------------------------------------------ the goroutines side by side ----
\* main() runs the listener goroutine, the poll goroutine and the signal
\* loop over the same players without a lock.  Here player-next is taken in
\* the two steps between which the signal loop can run: the read of
\* len(players.list), and the rest of the case.
PlayerNextLength ==
    /\ phase = "running" /\ impl = "main" /\ listener.pc = "accept"
    /\ listener' = [pc |-> "player-next", length |-> Len(list)]
    /\ handled' = Handled("player-next-length", 0, 0, -1, current, 0)
    /\ events' = <<>>
    /\ reply' = NoReply
    /\ UNCHANGED <<poll, inst, sock, impl, flagAutofocus, autofocus, phase, list, current,
                   lastLine, WRITER, outfile>>

\* if length != 1 { ...; players.Refresh(); fmt.Fprintln(WRITER, players.JSON()) }
PlayerNextSelect ==
    /\ phase = "running" /\ impl = "main" /\ listener.pc = "player-next"
    /\ LET length == listener.length
           c == NextIndex(current, length)
       IN IF length # 1
          THEN /\ length = 0 => Followed(c)
               /\ \E f \in Fetches(list) :
                    LET ls == Refresh(list, f)
                    IN IF JSONPanics(ls, c)
                       THEN Panic(Handled("player-next", 0, 0, -1, current, 0))
                       ELSE /\ list' = ls
                            /\ current' = c
                            /\ events' = <<Fprintln(WRITER, JSON(ls, c))>>
                            /\ outfile' = WriteFile(WRITER, outfile)
                            /\ handled' = Handled("player-next", 0, 0, -1, current, 0)
                            /\ reply' = NoReply
                            /\ listener' = Accepting
                            /\ UNCHANGED <<poll, inst, sock, impl, flagAutofocus, autofocus,
                                           phase, lastLine, WRITER>>
          ELSE /\ handled' = Handled("player-next", 0, 0, -1, current, 0)
               /\ events' = <<>>
               /\ reply' = NoReply
               /\ listener' = Accepting
               /\ UNCHANGED <<poll, inst, sock, impl, flagAutofocus, autofocus, phase, list,
                              current, lastLine, WRITER, outfile>>

\* the poll goroutine: time.Sleep, if len(players.list) != 0
PollCheck ==
    /\ phase = "running" /\ impl = "main" /\ poll = "sleep"
    /\ poll' = IF Len(list) # 0 THEN "checked" ELSE "sleep"
    /\ handled' = Handled("poll-check", 0, 0, -1, current, 0)
    /\ events' = <<>>
    /\ reply' = NoReply
    /\ UNCHANGED <<listener, inst, sock, impl, flagAutofocus, autofocus, phase, list,
                   current, lastLine, WRITER, outfile>>

\* if players.list[players.current].playing { go fmt.Fprintln(WRITER, players.JSON()) }
PollRead ==
    /\ phase = "running" /\ impl = "main" /\ poll = "checked"
    /\ IF IndexPanics(list, current)
       THEN Panic(Handled("poll", 0, 0, -1, current, 0))
       ELSE /\ poll' = "sleep"
            /\ IF At(list, current).playing
               THEN /\ events' = <<Fprintln(WRITER, JSON(list, current))>>
                    /\ outfile' = WriteFile(WRITER, outfile)
               ELSE /\ events' = <<>>
                    /\ UNCHANGED outfile
            /\ handled' = Handled("poll", 0, 0, -1, current, 0)
            /\ reply' = NoReply
            /\ UNCHANGED <<listener, inst, sock, impl, flagAutofocus, autofocus, phase, list,
                           current, lastLine, WRITER>>

\* started with --position: the poll goroutine runs
InitRace ==
    /\ InitConfig /\ impl = "main" /\ phase = "new" /\ outfile = "absent"
    /\ sock = "primary" /\ inst = NoInst /\ poll = "sleep"

NextRace ==
    \/ Startup
    \/ NameOwnerNew
    \/ NameOwnerRemove
    \/ PlayerNextLength
    \/ PlayerNextSelect
    \/ CmdTrack
    \/ PollCheck
    \/ PollRead

SpecRace == InitRace /\ [][NextRace]_vars

\* ------------------------------------------- Player.Refresh in detail ----
\* In SpecRefresh a player carries, besides what it has stored, the bus
\* object it asks (the field player): the PlaybackStatus and the Metadata
\* a GetProperty call on it returns now, or the error when the player is
\* gone or does not answer.
Statuses == {"Playing", "Paused", "Stopped", "error"}

Metadatas ==
    {[err |-> TRUE, title |-> "", artist |-> "", album |-> ""],
     [err |-> FALSE, title |-> "", artist |-> "", album |-> ""],
     [err |-> FALSE, title |-> "t", artist |-> "a", album |-> "b"]}

BusObjects == [status : Statuses, metadata : Metadatas]

\* Player.Refresh
PlayerRefresh(p) ==
    LET status == p.player.status
        md == p.player.metadata
    IN IF status = "error"
       THEN [p EXCEPT !.playing = FALSE, !.stopped = FALSE,
                      !.title = "", !.artist = "", !.album = ""]
       ELSE LET q == [p EXCEPT !.playing = (status = "Playing"),
                               !.stopped = (status \notin {"Playing", "Paused"})]
            IN IF md.err
               THEN [q EXCEPT !.title = "", !.artist = "", !.album = ""]
               ELSE [q EXCEPT !.title = md.title, !.artist = md.artist,
                              !.album = md.album]

\* NewPlayer: the struct literal, then p.Refresh()
NewPlayerOn(name, obj) ==
    PlayerRefresh([fullName |-> name, pid |-> PidOf(name), playing |-> FALSE,
                   stopped |-> FALSE, title |-> "", artist |-> "", album |-> "",
                   player |-> obj])

\* PlayerList.Refresh / the loop of Mpris2.Refresh
RefreshEach(ls) == [k \in 1 .. Len(ls) |-> PlayerRefresh(ls[k])]

\* PlayerList.New / Mpris2.New with the fetch of NewPlayer
NewFetched ==
    /\ phase = "running"
    /\ Len(list) < MaxFetched
    /\ \E name \in PlayerNames, obj \in BusObjects :
          /\ \A k \in 1 .. Len(list) : list[k].fullName # name
          /\ list' = Append(list, NewPlayerOn(name, obj))
          /\ current' = IF autofocus THEN uint(Len(list)) ELSE current
          /\ handled' = Handled("new-fetched", name, PidOf(name), -1, current, 0)
    /\ events' = <<>>
    /\ reply' = NoReply
    /\ UNCHANGED <<listener, poll, inst, sock, impl, flagAutofocus, autofocus, phase,
                   lastLine, WRITER, outfile>>

\* a player changes its state, stops answering or leaves the bus
PlayerChanges ==
    /\ phase = "running"
    /\ \E k \in 1 .. Len(list), obj \in BusObjects :
          /\ obj # list[k].player
          /\ list' = [list EXCEPT ![k].player = obj]
          /\ handled' = Handled("player-changes", list[k].fullName, 0, k - 1, current, 0)
    /\ events' = <<>>
    /\ reply' = NoReply
    /\ UNCHANGED <<listener, poll, inst, sock, impl, flagAutofocus, autofocus, phase,
                   current, lastLine, WRITER, outfile>>

\* PlayerList.Refresh / Mpris2.Refresh
RefreshAll ==
    /\ phase = "running"
    /\ list' = RefreshEach(list)
    /\ events' = IF impl = "client" THEN <<Message("refresh", 0)>> ELSE <<>>
    /\ handled' = Handled("refresh-all", 0, 0, -1, current, 0)
    /\ reply' = NoReply
    /\ UNCHANGED <<listener, poll, inst, sock, impl, flagAutofocus, autofocus, phase,
                   current, lastLine, WRITER, outfile>>

InitRefresh ==
    /\ InitConfig /\ phase = "running" /\ outfile = "absent"
    /\ sock = "primary" /\ inst = NoInst /\ poll = "off"

NextRefresh == NewFetched \/ PlayerChanges \/ RefreshAll

SpecRefresh == InitRefresh /\ [][NextRefresh]_vars

\* the signal loop's NameOwnerChanged case next to the startup enumeration
NextOwner ==
    \/ Startup
    \/ ClientReload
    \/ NameOwnerIgnored
    \/ NameOwnerNew
    \/ NameOwnerRemove
    \/ NameOwnerEmbedded

SpecOwner == Init /\ [][NextOwner]_vars

\* ------------------------------------------------------------- claims ----
Running == phase = "running"

Selected(ls, cur) == At(ls, cur).fullName

\* the line main.go writes for the current player, or the "refresh" message
\* of mpris2client
Refreshed(ev, w, ls, cur) ==
    \E k \in 1 .. Len(ev) :
        \/ ev[k] = Message("refresh", 0)
        \/ /\ impl = "main"
           /\ ~JSONPanics(ls, cur)
           /\ ev[k] = Fprintln(w, JSON(ls, cur))

\* C1: after every Add and Remove on a registry that started empty, the
\* registry is empty or the selection index is a position of the sequence
C1_SelectionValid ==
    list = <<>> \/ (0 <= current /\ current < Len(list))

C1_Witness ==
    /\ Running
    /\ handled.op = "remove" /\ handled.i # -1
    /\ Len(list) >= 2 /\ current >= 1

\* C2: removing a player that is not the selected one leaves the identity of
\* the selected player as it was, whatever happens to the index
C2_RemoveKeepsCurrent ==
    [][(/\ handled'.op = "remove"
        /\ Running
        /\ ~IndexPanics(list, current)
        /\ IndexOf(list, handled'.name) \notin {-1, current})
       => (/\ phase' = "running"
           /\ Len(list') = Len(list) - 1
           /\ ~IndexPanics(list', current')
           /\ Selected(list', current') = Selected(list, current))]_vars

C2_Witness ==
    /\ Running
    /\ handled.op = "remove"
    /\ handled.i = 0 /\ handled.cur >= 1
    /\ current # handled.cur
    /\ ~IndexPanics(list, current)

\* C3: removing the selected player resets the selection to position 0 and
\* yields a Refreshed event (a line in main.go, a "refresh" message in
\* mpris2client), also when the registry becomes empty
C3_RemoveCurrentRefreshes ==
    [][(/\ handled'.op = "remove"
        /\ Running
        /\ ~IndexPanics(list, current)
        /\ IndexOf(list, handled'.name) = current)
       => (/\ current' = 0
           /\ Refreshed(events', WRITER', list', current'))]_vars

\* position of the player called name in a sequence of distinct players
Pos(ls, name) == CHOOSE k \in 1 .. Len(ls) : ls[k].fullName = name

\* C4: Sort is stable: two players with the same playing flag keep their
\* relative order
C4_SortStable ==
    [][handled'.op = "sort"
       => \A a, b \in 1 .. Len(list) :
            (a < b /\ list[a].playing = list[b].playing)
            => Pos(list', list[a].fullName) < Pos(list', list[b].fullName)]_vars

Count(ls, x) == Cardinality({k \in 1 .. Len(ls) : ls[k] = x})

IsPermutation(a, b) ==
    /\ Len(a) = Len(b)
    /\ \A k \in 1 .. Len(a) : Count(a, a[k]) = Count(b, a[k])

PlayingFirst(ls) ==
    \A a, b \in 1 .. Len(ls) : (a < b /\ ls[b].playing) => ls[a].playing

\* C5: Sort permutes the players so that the playing ones come first, and
\* selects position 0: the selected player is playing when any player is
C5_SortPlayingFirst ==
    [][handled'.op = "sort"
       => (/\ IsPermutation(list, list')
           /\ PlayingFirst(list')
           /\ current' = 0
           /\ (\E k \in 1 .. Len(list) : list[k].playing)
                => At(list', current').playing)]_vars

C5_Witness ==
    /\ handled.op = "sort"
    /\ Len(list) >= 7
    /\ list[1].fullName = 7 /\ list[1].playing
    /\ ~list[2].playing
    /\ current = 0

\* C6: with n >= 2 players and a valid selection i, player-next selects
\* (i+1) mod n and player-prev (i-1) mod n, the players stay where they are
\* and one line is written
C6_SelectWraps ==
    [][(/\ handled'.op \in {"player-next", "player-prev"}
        /\ Running
        /\ Len(list) >= 2
        /\ current < Len(list))
       => (/\ phase' = "running"
           /\ current' = IF handled'.op = "player-next"
                         THEN (current + 1) % Len(list)
                         ELSE (current + Len(list) - 1) % Len(list)
           /\ NamesOf(list') = NamesOf(list)
           /\ Len(events') = 1
           /\ events'[1].sinks = WRITER
           /\ events'[1].line = PlayerJSON(At(list', current')))]_vars

C6_Witness ==
    /\ Running
    /\ handled.op = "player-next"
    /\ Len(list) = 3 /\ handled.cur = 2 /\ current = 0
    /\ Len(events) = 1

\* C7: player-next and player-prev change nothing when fewer than 2 players
\* exist
C7_SelectNoOpBelowTwo ==
    [][(/\ handled'.op \in {"player-next", "player-prev"}
        /\ Running
        /\ Len(list) < 2)
       => (current' = current /\ list' = list)]_vars

RECURSIVE Decimal(_)
Decimal(d) ==
    IF d = <<>> THEN 0 ELSE 10 * Decimal(SubSeq(d, 1, Len(d) - 1)) + d[Len(d)]

\* C10: the list reply has one line per player, in order, each with its
\* position, and on a non-empty registry exactly the line of the selected
\* player carries the marker
C10_ListMarksCurrent ==
    reply.kind = "list"
    => LET ln == reply.lines
       IN /\ Len(ln) = Len(list)
          /\ \A k \in 1 .. Len(ln) :
                /\ ln[k].name = list[k].fullName
                /\ Decimal(ln[k].index) = k - 1
                /\ Len(ln[k].index) >= 1
          /\ list # <<>>
             => /\ Cardinality({k \in 1 .. Len(ln) : ln[k].star}) = 1
                /\ \A k \in 1 .. Len(ln) : ln[k].star <=> (k - 1 = current)

\* C8: share is idempotent: a share received while the output is already
\* mirrored is answered with "success" and changes neither the duplication
\* file nor the writer
C8_ShareIdempotent ==
    [][(/\ handled'.op = "share"
        /\ Running
        /\ WRITER = <<"stdout", "outfile">>)
       => (/\ reply'.text = <<"success">>
           /\ WRITER' = WRITER
           /\ outfile' = outfile)]_vars

\* C9: an invocation without --send and without --replace next to a live
\* primary never connects to the bus, builds a registry, registers matches
\* or binds SOCK, and writes only mirrored lines to its standard output
C9_AttachOnlyMirrors ==
    (/\ inst.pc # "none"
     /\ inst.command = "" /\ ~inst.replace
     /\ phase = "running" /\ sock = "primary")
    => (/\ ~inst.bus /\ ~inst.registry /\ ~inst.matches /\ ~inst.bound
        /\ inst.stdout \subseteq {"mirrored line"})

\* C11: a bad peer never stops the control listener: after a peer sent an
\* unknown command, hung up before sending, or connected and sent nothing,
\* the registry, the writer and the duplication file are as before, the
\* primary runs and the listener goroutine stands in Accept again, ready for
\* the next peer
C11_BadPeerKeepsListener ==
    [][(/\ handled'.op \in {"invalid", "peer-closed", "peer-silent"}
        /\ Running
        /\ listener.pc = "accept")
       => (/\ phase' = "running"
           /\ list' = list /\ current' = current
           /\ WRITER' = WRITER /\ outfile' = outfile
           /\ listener'.pc = "accept")]_vars

\* C12: under --replace with SOCK present, the window that passes without
\* an answer of the operator ("Removing due to lack of input") ends with
\* SOCK removed, so that net.Listen can bind it
C12_ReplaceRemovesEndpoint ==
    [][(/\ inst.pc = "replace-wait"
        /\ inst'.pc = "listen"
        /\ "Removing" \in inst'.stdout)
       => sock' = "absent"]_vars

\* C13: an invocation without command and without --replace that binds
\* SOCK and becomes primary has no duplication file of an earlier run left
\* at that moment
C13_NoStaleOutfileAtBind ==
    [][(/\ inst.pc = "listen"
        /\ inst'.pc = "serving"
        /\ inst.command = "" /\ ~inst.replace)
       => outfile' # "data"]_vars

\* C14: the goroutines never get in each other's way: a player-next that
\* found two or more players, or a poll tick, going on while the selection
\* is in range neither indexes the player sequence out of range (panic) nor
\* leaves the selection out of range, whatever the signal loop added or
\* removed meanwhile
C14_TasksNeverIndexOutOfRange ==
    [][(/\ handled'.op \in {"player-next", "poll"}
        /\ handled'.op = "player-next" => listener.length >= 2
        /\ Running
        /\ C1_SelectionValid)
       => (/\ phase' = "running"
           /\ (list' = <<>> \/ current' < Len(list')))]_vars

\* C15: on an empty registry next, prev, toggle and the poll tick read no
\* player entry: the primary keeps running and the listener goroutine is
\* back in Accept
C15_NoCurrentReadOnEmpty ==
    [][(/\ handled'.op \in {"next", "prev", "toggle", "poll-check"}
        /\ Running
        /\ list = <<>>)
       => (/\ phase' = "running"
           /\ listener'.pc = "accept"
           /\ poll' = "sleep"
           /\ list' = list /\ current' = current)]_vars

\* the message Listen of mpris2client owes for a notification
ChangeEvent(h) ==
    IF h.op = "new" THEN Message("add", h.name)
    ELSE IF h.op = "remove" THEN Message("remove", h.name)
    ELSE Message("refresh", 0)

\* C16: for every notification that Listen of mpris2client acts on (an
\* added name, a removed name whether registered or not, a property
\* change) exactly one message is sent: "add", "remove" or "refresh"
C16_OneChangeEvent ==
    [][(/\ impl = "client"
        /\ handled'.op \in {"new", "remove", "refresh"}
        /\ Running
        /\ handled'.op = "remove" => ~IndexPanics(list, current))
       => events' = <<ChangeEvent(handled')>>]_vars

\* C17: with autofocus requested (--autofocus of main.go, the autofocus
\* argument of NewMpris2), New selects the player it appended: the last
\* position of the sequence
C17_AutofocusSelectsNew ==
    [][(/\ handled'.op = "new"
        /\ Running
        /\ flagAutofocus)
       => (/\ Len(list') = Len(list) + 1
           /\ current' = Len(list') - 1
           /\ Selected(list', current') = handled'.name)]_vars

FetchFails(p) == p.player.status = "error" \/ p.player.metadata.err

Degraded(p) ==
    /\ ~p.playing /\ p.stopped
    /\ p.title = "" /\ p.artist = "" /\ p.album = ""

Fetched(p) ==
    /\ p.playing = (p.player.status = "Playing")
    /\ p.stopped = (p.player.status = "Stopped")
    /\ p.title = p.player.metadata.title
    /\ p.artist = p.player.metadata.artist
    /\ p.album = p.player.metadata.album

\* C18: a fetch that fails while a player is added or while all players are
\* refreshed leaves that player not playing, stopped and without title,
\* artist and album; the operation completes, every other player holds
\* what it fetched, and a refresh changes neither the members nor the
\* selection
C18_FetchFailureDegrades ==
    [][(/\ handled'.op \in {"new-fetched", "refresh-all"}
        /\ Running)
       => (/\ phase' = "running"
           /\ handled'.op = "refresh-all"
                => (NamesOf(list') = NamesOf(list) /\ current' = current)
           /\ \A k \in 1 .. Len(list') :
                (handled'.op = "refresh-all" \/ k = Len(list'))
                => IF FetchFails(list'[k]) THEN Degraded(list'[k])
                   ELSE Fetched(list'[k]))]_vars

\* the media-player namespace without the aggregator
InNamespace(name) == name \in PlayerNames

\* C19: an ownership notification for a name of the media-player namespace
\* other than playerctld appends one player of that name (owner present) or
\* runs Remove for it (no owner); a notification for any other name leaves
\* players and selection as they are; and neither the startup enumeration
\* nor a notification makes playerctld a member
C19_OnlyPlayerNamesChangeRegistry ==
    [][(/\ handled'.op \in {"startup", "reload", "noc-ignored", "new", "remove"}
        /\ phase \in {"new", "running"})
       => (/\ \A k \in 1 .. Len(list') : list'[k].fullName # PLAYERCTLD
           /\ handled'.op \in {"startup", "reload"}
                => \A k \in 1 .. Len(list') : InNamespace(list'[k].fullName)
           /\ handled'.op \in {"noc-ignored", "new", "remove"}
                => IF ~InNamespace(handled'.name)
                   THEN list' = list /\ current' = current
                   ELSE IF handled'.pid # 0
                   THEN /\ Len(list') = Len(list) + 1
                        /\ SubSeq(list', 1, Len(list)) = list
                        /\ list'[Len(list')].fullName = handled'.name
                   ELSE IF IndexPanics(list, current)
                   THEN phase' = "crashed"
                   ELSE /\ NamesOf(list') = NamesOf(Remove(list, current, handled'.name).list)
                        /\ current' = Remove(list, current, handled'.name).current)]_vars

\* C20: notifications are handled one after the other, and a line is
\* dropped only when it equals the line written last: when the handler of
\* one notification wrote a line and the handler of the next property
\* change writes none, the line of that property change is the one
\* written before
C20_OnlyRepeatedLinesDropped ==
    [][(/\ impl = "main"
        /\ Running /\ phase' = "running"
        /\ handled.op \in {"remove", "refresh"}
        /\ Len(events) = 1
        /\ handled'.op = "refresh"
        /\ events' = <<>>)
       => JSON(list', current') = events[1].line]_vars

\* C21: an interrupt of the running primary removes SOCK and OUTFILE and
\* ends the process; an invocation without --replace that does not serve
\* (a command sender, an attached mirror) and ends next to a running
\* primary leaves the primary's SOCK and OUTFILE in place
C21_OnlyPrimaryCleansUp ==
    [][(/\ (handled'.op = "interrupt" /\ Running)
            => (/\ phase' = "exited"
                /\ sock' = "absent"
                /\ outfile' = RemoveOutfile(outfile)))
       /\ (/\ Running /\ phase' = "running" /\ sock = "primary"
           /\ ~inst.replace
           /\ inst.pc \notin {"none", "serving", "exited", "fatal"}
           /\ inst'.pc \in {"exited", "fatal"})
            => (sock' = sock /\ outfile' = outfile)]_vars

\* C22: in main.go the line written last is the line of the selected
\* player: a handler after which players.JSON() is another line than
\* before it (the selection moved to another player, the selected player
\* changed, the registry became empty or got its first player) writes that
\* line, as the last thing it writes
C22_DisplayShowsCurrent ==
    [][(/\ impl = "main"
        /\ Running /\ phase' = "running"
        /\ ~JSONPanics(list, current) /\ ~JSONPanics(list', current')
        /\ JSON(list', current') # JSON(list, current))
       => (/\ events' # <<>>
           /\ events'[Len(events')] = Fprintln(WRITER', JSON(list', current')))]_vars

\* C23: no name is registered twice: every fullName occurs at most once in
\* the player sequence
C23_IdentitiesUnique ==
    \A a, b \in 1 .. Len(list) :
        a # b => list[a].fullName # list[b].fullName

\* C24: Remove of a name that is not registered changes nothing and does
\* not fail, on an empty registry as on any other: the process runs on,
\* players and selection are as before, and main.go writes no line
C24_RemoveUnknownIsNoOp ==
    [][(/\ handled'.op = "remove"
        /\ Running
        /\ IndexOf(list, handled'.name) = -1)
       => (/\ phase' = "running"
           /\ list' = list /\ current' = current
           /\ impl = "main" => events' = <<>>)]_vars

====
